---- MODULE Spec2Model ----
(***************************************************************************)
(* A model of multi_train.py: the contrastive loss, one training epoch     *)
(* (train), one validation pass (test), the epoch driver (training_loop)   *)
(* as main calls it for its two phases, and the start of main on every     *)
(* rank up to the top-level handler.                                       *)
(*                                                                         *)
(* Four specifications share the variables:                               *)
(*   SpecTrain  one call of train with its parameters drawn from bounded   *)
(*              sets;                                                      *)
(*   Spec       main's two calls of training_loop (lines 243-265), each    *)
(*              running train and test per epoch, with training_loop's     *)
(*              parameters drawn from bounded sets;                        *)
(*   SpecMain   main on every rank from its entry to the top-level         *)
(*              handler (lines 188-212 and 297-302).  As written, main     *)
(*              cannot get past line 207, so SpecMain never reaches the    *)
(*              calls Spec models;                                         *)
(*   SpecLoss   the loss of lines 39-51 / 82-94 applied to two embedding   *)
(*              batches and to the same batches swapped.                   *)
(* Mean losses are exact rationals <<numerator, denominator>>; exp is      *)
(* modelled by an integer power of two (see ExpDiv).                       *)
(***************************************************************************)
EXTENDS Integers, Sequences, FiniteSets, TLC

VARIABLES
    cfg,            \* the parameters of the calls (fixed after Init)
    pc,             \* position of the training process
    exc,            \* the exception that ended it, "none" otherwise
    phase,          \* "ft" (optimizer over cornet.f) or "full" (all parameters)
    main_best,      \* main's best_val_loss
    best_val_loss,  \* training_loop's local
    loss_val,       \* training_loop's local
    loss_train,     \* training_loop's local
    epoch,          \* training_loop's loop variable
    results,        \* results['loss_train'], results['loss_val']
    files,          \* the experiment directory's files
    netMode,        \* "train" or "eval"
    grads,          \* .grad of the parameters of cornet.f and of the rest
    t,              \* train's locals
    v,              \* test's locals
    h,              \* history: what happened, never read by the program
    ranks,          \* SpecMain: per-rank position and exception
    fs,             \* SpecMain: the experiment directory
    lz              \* SpecLoss: the embeddings and the computed losses

vars == <<cfg, pc, exc, phase, main_best, best_val_loss, loss_val, loss_train,
          epoch, results, files, netMode, grads, t, v, h, ranks, fs, lz>>

trainVars == <<cfg, pc, exc, phase, main_best, best_val_loss, loss_val,
               loss_train, epoch, results, files, netMode, grads, t, v, h>>

(* ------------------------------ bounds -------------------------------- *)
MaxBatches == 3
MaxK == 3
MaxInterval == 2
MaxEpoch == 2
MaxValInterval == 2
MaxLoss == 2
MaxValBatches == 2
MaxRanks == 3
MaxCoord == 1

(* ------------------------- program constants -------------------------- *)
BatchSize == 1
MainBestValLoss == 1000000
MainTrainInterval == 512

(* ------------------------------ rationals ----------------------------- *)
Rat(n, d) == <<n, d>>
Leq(a, b) == a[1] * b[2] <= b[1] * a[2]
RatEq(a, b) == a[1] * b[2] = b[1] * a[2]

\* z.shape[0]: both views of every sample of the batch
ZRows == 2 * BatchSize

(* ------------------------------ optimizer ----------------------------- *)
NoGrads == [f |-> {}, g |-> {}]

\* loss.backward(): the batch's gradient is added to every parameter's .grad
Backward(g, b) == [f |-> g.f \cup {b}, g |-> g.g \cup {b}]

\* otp.zero_grad(): clears the .grad of the parameters the optimizer holds
ZeroGrad(opt, g) == IF opt = "ft" THEN [g EXCEPT !.f = {}] ELSE NoGrads

\* otp.step(): applies the .grad of the parameters the optimizer holds
StepApplies(opt, g) == IF opt = "ft" THEN g.f ELSE g.f \cup g.g

(* -------------------------------- train ------------------------------- *)
TrainLocals0 ==
    [i |-> 0, gac |-> 0, training_updates |-> 0, total_loss |-> 0, total_num |-> 0]

History0 ==
    [call |-> 0, steps |-> <<>>, printed |-> <<>>, partial |-> <<>>,
     batchModes |-> {}, trainLog |-> <<>>, valLog |-> <<>>,
     best_in |-> Rat(MainBestValLoss, 1), entryTrain |-> 0, entryVal |-> 0,
     entryCornetVal |-> <<>>, loops |-> 0]

\* line 101
StepDue(gac, k) == gac >= k

\* line 114
PrintDue(updates, interval) == (updates % interval) = 0

\* line 123
ResidualDue(gac) == gac > 0

\* faulty variant of NetTrain: the mode is left as test set it
NetTrainKept(mode) == mode

\* line 62: net.train()
NetTrain(mode) == "train"

\* line 25: net.eval()
NetEval(mode) == "eval"

\* faulty variant of EnterGrads: the gradients of the previous call are kept
EnterGradsKept(opt, g) == g

\* line 68: otp.zero_grad() before the first batch
EnterGrads(opt, g) == ZeroGrad(opt, g)

\* lines 60-69
TrainEnter ==
    /\ pc = "train"
    /\ netMode' = NetTrain(netMode)
    /\ t' = TrainLocals0
    /\ grads' = EnterGrads(phase, grads)
    /\ h' = [h EXCEPT !.call = @ + 1, !.steps = <<>>, !.printed = <<>>, !.partial = <<>>]
    /\ pc' = "batch"
    /\ UNCHANGED <<cfg, exc, phase, main_best, best_val_loss, loss_val, loss_train,
                   epoch, results, files, v, ranks, fs, lz>>

\* lines 72-120: one iteration of the loop over data, with loss l
TrainBatchBody(l) ==
    LET b == <<h.call, t.i + 1>>
        g1 == Backward(grads, b)
        gac1 == t.gac + 1
        step == StepDue(gac1, cfg.k)
        upd1 == IF step THEN t.training_updates + 1 ELSE t.training_updates
        print == step /\ PrintDue(upd1, cfg.interval)
        h1 == [h EXCEPT !.batchModes = @ \cup {<<"train", netMode>>},
                        !.steps = IF step THEN Append(@, StepApplies(phase, g1)) ELSE @]
    IN  /\ grads' = IF step THEN ZeroGrad(phase, g1) ELSE g1
        /\ IF print /\ t.total_num = 0
           THEN \* line 115: total_loss / total_num raises ZeroDivisionError
                /\ pc' = "raised"
                /\ exc' = "ZeroDivisionError"
                /\ t' = [t EXCEPT !.gac = 0, !.training_updates = upd1]
                /\ h' = h1
                /\ files' = files
           ELSE /\ pc' = pc
                /\ exc' = exc
                /\ t' = [i |-> t.i + 1,
                         gac |-> IF step THEN 0 ELSE gac1,
                         training_updates |-> upd1,
                         total_loss |-> t.total_loss + l * ZRows,
                         total_num |-> t.total_num + ZRows]
                /\ h' = IF print
                        THEN [h1 EXCEPT
                                !.printed = Append(@, <<upd1, Rat(t.total_loss, t.total_num)>>),
                                !.partial = Append(@, upd1)]
                        ELSE h1
                /\ files' = IF print
                            THEN [files EXCEPT !.cornet_partial = <<h.call, upd1>>]
                            ELSE files

TrainBatch ==
    /\ pc = "batch"
    /\ t.i < cfg.n
    /\ \E l \in cfg.trainLosses : TrainBatchBody(l)
    /\ UNCHANGED <<cfg, phase, main_best, best_val_loss, loss_val, loss_train,
                   epoch, results, netMode, v, ranks, fs, lz>>

\* lines 122-127: the loop is over; residual step and the mean
TrainReturn ==
    /\ pc = "batch"
    /\ t.i = cfg.n
    /\ h' = IF ResidualDue(t.gac)
            THEN [h EXCEPT !.steps = Append(@, StepApplies(phase, grads))]
            ELSE h
    /\ loss_train' = Rat(t.total_loss, t.total_num)
    /\ pc' = "trained"
    /\ UNCHANGED <<cfg, exc, phase, main_best, best_val_loss, loss_val,
                   epoch, results, files, netMode, grads, t, v, ranks, fs, lz>>

NoFiles ==
    [results_train |-> <<>>, results_val |-> <<>>, cornet_val |-> <<>>,
     cornet_partial |-> <<>>, cornet_epoch |-> {}]

NoRanks == <<>>
NoLoss == <<>>

InitTrain ==
    /\ cfg \in [k : 1..MaxK, interval : 1..MaxInterval, n : 1..MaxBatches,
                trainLosses : {0..MaxLoss}]
    /\ pc = "train"
    /\ exc = "none"
    /\ phase \in {"ft", "full"}
    /\ main_best = Rat(MainBestValLoss, 1)
    /\ best_val_loss = Rat(MainBestValLoss, 1)
    /\ loss_val = Rat(MainBestValLoss, 1)
    /\ loss_train = Rat(0, 1)
    /\ epoch = 1
    /\ results = [loss_train |-> <<>>, loss_val |-> <<>>]
    /\ files = NoFiles
    /\ netMode = "train"
    /\ grads = NoGrads
    /\ t = TrainLocals0
    /\ v = [i |-> 0, total_loss |-> 0, total_num |-> 0]
    /\ h = History0
    /\ ranks = NoRanks
    /\ fs = FALSE
    /\ lz = NoLoss

NextTrain == TrainEnter \/ TrainBatch \/ TrainReturn

SpecTrain == InitTrain /\ [][NextTrain]_vars

(* -------------------------------- test -------------------------------- *)
\* lines 23-28
TestEnter ==
    /\ pc = "test"
    /\ netMode' = NetEval(netMode)
    /\ v' = [i |-> 0, total_loss |-> 0, total_num |-> 0]
    /\ pc' = "vbatch"
    /\ UNCHANGED <<cfg, exc, phase, main_best, best_val_loss, loss_val, loss_train,
                   epoch, results, files, grads, t, h, ranks, fs, lz>>

\* lines 31-55: one iteration under torch.no_grad(), with loss l
TestBatch ==
    /\ pc = "vbatch"
    /\ v.i < cfg.nval
    /\ \E l \in cfg.valLosses :
          v' = [i |-> v.i + 1,
                total_loss |-> v.total_loss + l * ZRows,
                total_num |-> v.total_num + ZRows]
    /\ h' = [h EXCEPT !.batchModes = @ \cup {<<"val", netMode>>}]
    /\ UNCHANGED <<cfg, pc, exc, phase, main_best, best_val_loss, loss_val, loss_train,
                   epoch, results, files, netMode, grads, t, ranks, fs, lz>>

\* line 57, assigned at line 142
TestReturn ==
    /\ pc = "vbatch"
    /\ v.i = cfg.nval
    /\ loss_val' = Rat(v.total_loss, v.total_num)
    /\ pc' = "validated"
    /\ UNCHANGED <<cfg, exc, phase, main_best, best_val_loss, loss_train,
                   epoch, results, files, netMode, grads, t, v, h, ranks, fs, lz>>

(* ---------------------------- training_loop --------------------------- *)
MaxEpochOf(ph) == IF ph = "ft" THEN cfg.epochs_ft ELSE cfg.epochs

\* line 141
ValidationDue(e, val_interval) == (e % val_interval) = 0

\* faulty variant of Improves: a tie with the best loss does not count
ImprovesStrict(lv, best) == ~Leq(best, lv)

\* line 156
Improves(lv, best) == Leq(lv, best)

\* faulty variant of CsvRows: the index starts at 0
CsvRowsFromZero(list) == [j \in 1..Len(list) |-> <<j - 1, list[j]>>]

\* lines 150-153: DataFrame(data=list, index=range(1, len(list) + 1)).to_csv
CsvRows(list) == [j \in 1..Len(list) |-> <<j, list[j]>>]

\* line 159: cornet_<epoch>.pth, overwriting an earlier file of that name
SaveEpoch(saved, e, call) == {x \in saved : x[1] # e} \cup {<<e, call>>}

\* lines 128-132: the call, with main's best_val_loss as the argument
LoopEnter ==
    /\ pc = "loop"
    /\ best_val_loss' = main_best
    /\ loss_val' = main_best
    /\ epoch' = 1
    /\ h' = [h EXCEPT !.best_in = main_best, !.loops = @ + 1,
                      !.entryTrain = Len(results.loss_train),
                      !.entryVal = Len(results.loss_val),
                      !.entryCornetVal = files.cornet_val]
    /\ pc' = "train"
    /\ UNCHANGED <<cfg, exc, phase, main_best, loss_train, results, files,
                   netMode, grads, t, v, ranks, fs, lz>>

\* lines 136-141: train has returned
AfterTrain ==
    /\ pc = "trained"
    /\ results' = [results EXCEPT !.loss_train = Append(@, loss_train)]
    /\ h' = [h EXCEPT !.trainLog = Append(@, <<h.loops, epoch>>)]
    /\ pc' = IF ValidationDue(epoch, cfg.val_interval) THEN "test" ELSE "epoch_end"
    /\ UNCHANGED <<cfg, exc, phase, main_best, best_val_loss, loss_val, loss_train,
                   epoch, files, netMode, grads, t, v, ranks, fs, lz>>

\* lines 143-159: test has returned
Validated ==
    /\ pc = "validated"
    /\ LET r1 == [results EXCEPT !.loss_val = Append(@, loss_val)]
           better == Improves(loss_val, best_val_loss)
       IN  /\ results' = r1
           /\ best_val_loss' = IF better THEN loss_val ELSE best_val_loss
           /\ files' = [files EXCEPT
                          !.results_train = CsvRows(r1.loss_train),
                          !.results_val = CsvRows(r1.loss_val),
                          !.cornet_val = IF better THEN <<h.call, loss_val>> ELSE @,
                          !.cornet_epoch = SaveEpoch(@, epoch, h.call)]
    /\ h' = [h EXCEPT !.valLog = Append(@, <<h.loops, epoch, h.call>>)]
    /\ pc' = "epoch_end"
    /\ UNCHANGED <<cfg, exc, phase, main_best, loss_val, loss_train, epoch,
                   netMode, grads, t, v, ranks, fs, lz>>

\* lines 161 and 132: the next epoch, or line 163
EpochEnd ==
    /\ pc = "epoch_end"
    /\ IF epoch < MaxEpochOf(phase)
       THEN epoch' = epoch + 1 /\ pc' = "train"
       ELSE epoch' = epoch /\ pc' = "returned"
    /\ UNCHANGED <<cfg, exc, phase, main_best, best_val_loss, loss_val, loss_train,
                   results, files, netMode, grads, t, v, h, ranks, fs, lz>>

(* --------------------------- main, lines 243-268 ---------------------- *)
\* line 250
FineTunes(mode) == mode > 1

\* line 259
TrainsWhole(mode) == mode < 3

\* lines 255-256: the fine-tuning loop's result is kept, then lines 259-265
FtReturned ==
    /\ pc = "returned"
    /\ phase = "ft"
    /\ main_best' = best_val_loss
    /\ IF TrainsWhole(cfg.training_mode)
       THEN phase' = "full" /\ pc' = "loop"
       ELSE phase' = phase /\ pc' = "done"
    /\ UNCHANGED <<cfg, exc, best_val_loss, loss_val, loss_train, epoch, results,
                   files, netMode, grads, t, v, h, ranks, fs, lz>>

\* lines 264-268: the whole-network loop's result is dropped
FullReturned ==
    /\ pc = "returned"
    /\ phase = "full"
    /\ pc' = "done"
    /\ UNCHANGED <<cfg, exc, phase, main_best, best_val_loss, loss_val, loss_train,
                   epoch, results, files, netMode, grads, t, v, h, ranks, fs, lz>>

\* the values of best_val_loss a caller may pass; main passes MainBestValLoss
BestValInputs == {Rat(MainBestValLoss, 1)} \cup {Rat(l, 1) : l \in 0..MaxLoss}

\* The parameters main's calls of training_loop are run with.  training_mode,
\* the epoch counts and gradient_accumulation come from the command line;
\* val_interval, train_interval and best_val_loss are parameters of
\* training_loop (main passes 1, MainTrainInterval and MainBestValLoss).
\* Two families of inputs: one varies the losses and the best_val_loss passed
\* in, over loaders of one batch; the other varies the loaders' lengths and
\* gradient_accumulation, over data of one loss value.
LossInputs ==
    [training_mode : 1..3,
     epochs_ft : 1..MaxEpoch,
     epochs : 1..MaxEpoch,
     val_interval : 1..MaxValInterval,
     k : {1},
     interval : {1, MainTrainInterval},
     n : {1},
     nval : {1},
     best0 : BestValInputs,
     trainLosses : {{1}},
     valLosses : {0..MaxLoss}]

BatchInputs ==
    [training_mode : 1..3,
     epochs_ft : 1..MaxEpoch,
     epochs : 1..MaxEpoch,
     val_interval : 1..MaxValInterval,
     k : 1..MaxK,
     interval : {1, MainTrainInterval},
     n : 1..MaxBatches,
     nval : 1..MaxValBatches,
     best0 : {Rat(MainBestValLoss, 1)},
     trainLosses : {{1}},
     valLosses : {{1}}]

\* lines 239-250: the state in which main reaches its first training_loop call
Init ==
    /\ cfg \in LossInputs \cup BatchInputs
    /\ pc = "loop"
    /\ exc = "none"
    /\ phase = IF FineTunes(cfg.training_mode) THEN "ft" ELSE "full"
    /\ main_best = cfg.best0
    /\ best_val_loss = cfg.best0
    /\ loss_val = cfg.best0
    /\ loss_train = Rat(0, 1)
    /\ epoch = 0
    /\ results = [loss_train |-> <<>>, loss_val |-> <<>>]
    /\ files = NoFiles
    /\ netMode = "train"
    /\ grads = NoGrads
    /\ t = TrainLocals0
    /\ v = [i |-> 0, total_loss |-> 0, total_num |-> 0]
    /\ h = [History0 EXCEPT !.best_in = cfg.best0]
    /\ ranks = NoRanks
    /\ fs = FALSE
    /\ lz = NoLoss

Next ==
    \/ LoopEnter
    \/ TrainEnter
    \/ TrainBatch
    \/ TrainReturn
    \/ AfterTrain
    \/ TestEnter
    \/ TestBatch
    \/ TestReturn
    \/ Validated
    \/ EpochEnd
    \/ FtReturned
    \/ FullReturned

Spec == Init /\ [][Next]_vars

(* ======================= properties of train ========================== *)
Min2(a, b) == IF a <= b THEN a ELSE b
CeilDiv(n, k) == (n + k - 1) \div k

\* the batches of the running train call between its (j-1)-th and j-th step
BatchesOfStep(j) ==
    {<<h.call, i>> : i \in ((j - 1) * cfg.k + 1)..Min2(j * cfg.k, cfg.n)}

\* the positive multiples of interval up to u, ascending
Multiples(u, interval) == [j \in 1..(u \div interval) |-> j * interval]

InTrainCall == pc \in {"batch", "trained", "raised"}
TrainEnded == pc \in {"trained", "raised"}

\* C1: one call of train on n >= 1 batches with gradient_accumulation k >= 1
\* steps the optimizer once after each k consecutive batches and once more
\* for a remainder, ceil(n/k) times in all, never on zero batches.
C1_StepEveryKBatches ==
    /\ pc = "batch" => Len(h.steps) = t.i \div cfg.k
    /\ TrainEnded => Len(h.steps) = CeilDiv(cfg.n, cfg.k)
    /\ InTrainCall => \A j \in 1..Len(h.steps) : h.steps[j] # {}

\* C8: train prints the running mean and writes cornet_partial.pth at exactly
\* the updates whose count is a positive multiple of interval, every such
\* print having a well-defined mean; the residual step neither counts as an
\* update nor writes a checkpoint.
C8_PartialAtEveryInterval ==
    /\ exc # "ZeroDivisionError"
    /\ InTrainCall =>
          /\ h.partial = Multiples(t.training_updates, cfg.interval)
          /\ Len(h.printed) = Len(h.partial)
          /\ \A j \in 1..Len(h.printed) :
                h.printed[j][1] = h.partial[j] /\ h.printed[j][2][2] > 0
    /\ pc = "trained" =>
          /\ t.training_updates = cfg.n \div cfg.k
          /\ files.cornet_partial =
                IF Len(h.partial) = 0 THEN <<>>
                ELSE <<h.call, h.partial[Len(h.partial)]>>

(* =================== properties of training_loop ====================== *)
\* the positions of the validation losses of the running training_loop call
ObservedAt == (h.entryVal + 1)..Len(results.loss_val)
Observed == {results.loss_val[j] : j \in ObservedAt}

IsLeast(x, S) == (\E y \in S : RatEq(x, y)) /\ (\A y \in S : Leq(x, y))

\* C2 as stated: whatever best_val_loss is passed in, on return the result is
\* the least validation loss observed in the run and cornet_val.pth holds the
\* parameters of an epoch whose validation loss is the least recorded one.
C2_ReturnsLeastObserved ==
    (pc = "returned" /\ Observed # {}) =>
        /\ IsLeast(best_val_loss, Observed)
        /\ files.cornet_val # <<>>
        /\ IsLeast(files.cornet_val[2], {results.loss_val[j] : j \in 1..Len(results.loss_val)})

\* C2 amended: on return the result is the least of the best_val_loss passed
\* in and the validation losses observed in the call.  If some observed loss
\* was at most the value passed in, cornet_val.pth holds the parameters of
\* the latest epoch of the call whose validation loss equals the result;
\* otherwise the call has not written cornet_val.pth.
C2_ReturnsLeastOfGivenAndObserved ==
    pc = "returned" =>
        /\ IsLeast(best_val_loss, Observed \cup {h.best_in})
        /\ IF \E y \in Observed : Leq(y, h.best_in)
           THEN LET last == CHOOSE j \in ObservedAt :
                              /\ RatEq(results.loss_val[j], best_val_loss)
                              /\ \A i \in ObservedAt :
                                    RatEq(results.loss_val[i], best_val_loss) => i <= j
                IN  files.cornet_val = <<h.valLog[last][3], results.loss_val[last]>>
           ELSE files.cornet_val = h.entryCornetVal

\* C2 witness: a call given a best_val_loss it had to beat returns after two
\* validation epochs, the earlier of which gave the best checkpoint.
C2_Witness ==
    /\ pc = "returned"
    /\ Len(results.loss_val) - h.entryVal >= 2
    /\ h.best_in # Rat(MainBestValLoss, 1)
    /\ files.cornet_val # <<>>
    /\ files.cornet_val # h.entryCornetVal
    /\ files.cornet_val[1] < h.call

\* the epochs of the running call whose training is over
EpochsTrained ==
    IF pc \in {"train", "batch", "trained", "raised"} THEN epoch - 1 ELSE epoch

\* the epochs of the running call whose validation is over
EpochsValidated ==
    IF pc \in {"epoch_end", "returned", "done"}
    THEN epoch \div cfg.val_interval
    ELSE (epoch - 1) \div cfg.val_interval

InLoopCall == h.loops >= 1 /\ pc # "loop"

\* C3 as stated: a call of training_loop with max_epoch = E and val_interval = 1
\* leaves exactly E rows, indexed 1..E, in each results table.
C3_ExactlyERows ==
    (pc = "returned" /\ cfg.val_interval = 1) =>
        /\ Len(files.results_train) = MaxEpochOf(phase)
        /\ Len(files.results_val) = MaxEpochOf(phase)

\* C3 amended: a call of training_loop adds one entry to the train sequence per
\* epoch trained and one to the validation sequence per validation epoch, in
\* epoch order, after the entries the sequences held at the call; each table
\* holds the sequence as of the latest validation epoch, row j indexed j.  So
\* with val_interval = 1 a call that returns leaves m + E rows in each table,
\* m being the entries present at the call: E rows for main's first call,
\* E_ft + E for its second.
C3_RowsAddedPerEpoch ==
    /\ InLoopCall =>
          /\ Len(results.loss_train) = h.entryTrain + EpochsTrained
          /\ Len(results.loss_val) = h.entryVal + EpochsValidated
          /\ Len(h.trainLog) = Len(results.loss_train)
          /\ \A j \in (h.entryTrain + 1)..Len(h.trainLog) :
                h.trainLog[j] = <<h.loops, j - h.entryTrain>>
          /\ \A j \in (h.entryVal + 1)..Len(h.valLog) :
                h.valLog[j][2] = (j - h.entryVal) * cfg.val_interval
    /\ (pc = "returned" /\ cfg.val_interval = 1) =>
          /\ Len(files.results_train) = h.entryTrain + MaxEpochOf(phase)
          /\ Len(files.results_val) = h.entryVal + MaxEpochOf(phase)
          /\ h.entryTrain = (IF h.loops = 2 THEN cfg.epochs_ft ELSE 0)
          /\ \A j \in 1..Len(files.results_train) :
                files.results_train[j] = <<j, results.loss_train[j]>>
          /\ \A j \in 1..Len(files.results_val) :
                files.results_val[j] = <<j, results.loss_val[j]>>

\* C3 witness: main's second call returns with val_interval = 1, two epochs
\* of its own after the fine-tuning epochs.
C3_Witness ==
    /\ pc = "returned"
    /\ cfg.val_interval = 1
    /\ h.loops = 2
    /\ cfg.epochs = 2
    /\ Len(files.results_train) = cfg.epochs_ft + 2
    /\ Len(files.results_val) = cfg.epochs_ft + 2

\* C9: test leaves the network in evaluation mode, and still every training
\* batch is processed in training mode and every validation batch in
\* evaluation mode, whatever val_interval is.
C9_ModePerBatch ==
    /\ h.batchModes \subseteq {<<"train", "train">>, <<"val", "eval">>}
    /\ pc \in {"vbatch", "validated"} => netMode = "eval"

\* C9 witness: a training batch has been processed after a validation pass.
C9_Witness ==
    /\ pc = "batch"
    /\ t.i >= 1
    /\ Len(h.valLog) >= 1
    /\ <<"val", "eval">> \in h.batchModes

\* the batches of the last train call whose gradients no step cleared
Residual == {<<h.call, i>> : i \in (cfg.n - (cfg.n % cfg.k) + 1)..cfg.n}

AfterTrainCall ==
    \/ pc \in {"trained", "test", "vbatch", "validated", "epoch_end", "returned", "done"}
    \/ pc = "loop" /\ h.call >= 1

\* C10: every optimizer step applies exactly the gradients of the batches
\* processed since the previous step of the same train call, so every batch
\* is applied once; what the residual step leaves is cleared before the next
\* call's first backward pass, in either phase, and validation adds nothing.
C10_EachGradientAppliedOnce ==
    /\ InTrainCall =>
          /\ \A j \in 1..Len(h.steps) : h.steps[j] = BatchesOfStep(j)
          /\ \A i \in 1..(t.i - t.gac) :
                Cardinality({j \in 1..Len(h.steps) : <<h.call, i>> \in h.steps[j]}) = 1
    /\ pc = "batch" =>
          /\ grads.f = {<<h.call, i>> : i \in (t.i - t.gac + 1)..t.i}
          /\ phase = "full" => grads.g = grads.f
    /\ pc = "trained" =>
          \A i \in 1..cfg.n :
             Cardinality({j \in 1..Len(h.steps) : <<h.call, i>> \in h.steps[j]}) = 1
    /\ AfterTrainCall => grads.f = Residual

\* C10 witness: the whole-network phase steps in a later epoch, after the
\* fine-tuning phase and an epoch that ended with a residual step and a
\* validation pass.
C10_Witness ==
    /\ pc = "batch"
    /\ phase = "full"
    /\ h.loops = 2
    /\ epoch = 2
    /\ cfg.n % cfg.k # 0
    /\ cfg.val_interval = 1
    /\ Len(h.steps) >= 1

(* ------------------- main on every rank, lines 188-212 ---------------- *)
\* What the calls of lines 174-184 can do: return, raise the RuntimeError the
\* framework reports a CUDA or process-group failure with, or raise KeyError
\* for a missing RANK / LOCAL_RANK / WORLD_SIZE.
InitOutcomes == {"ok", "CudaError", "KeyError"}

\* line 299: except RuntimeError
RuntimeErrors == {"SameName", "CudaError"}
Caught(e) == e \in RuntimeErrors

\* faulty variant of ExistsCheckRaises: the test of line 201 is inverted
ExistsCheckInverted(exists) == ~exists

\* line 201
ExistsCheckRaises(exists) == exists

\* line 204: os.makedirs without exist_ok
MakedirsRaises(exists) == exists

Raise(r, e) == [ranks EXCEPT ![r] = [pc |-> "raised", exc |-> e, status |-> -1]]
Goto(r, p) == [ranks EXCEPT ![r].pc = p]

\* lines 190-193 and 174-182: set_random_seeds, then init_for_distributed up
\* to the barrier
InitForDistributed(r) ==
    /\ ranks[r].pc = "start"
    /\ \E o \in InitOutcomes :
          ranks' = IF o = "ok" THEN Goto(r, "barrier") ELSE Raise(r, o)
    /\ UNCHANGED <<fs, lz>>
    /\ UNCHANGED trainVars

\* line 184: torch.distributed.barrier() returns once every rank has called it
Barrier(r) ==
    /\ ranks[r].pc = "barrier"
    /\ \A q \in DOMAIN ranks :
          ranks[q].pc # "start" /\ ranks[q].exc \notin {"CudaError", "KeyError"}
    /\ ranks' = Goto(r, "check")
    /\ UNCHANGED <<fs, lz>>
    /\ UNCHANGED trainVars

\* lines 197-202
CheckSingularity(r) ==
    /\ ranks[r].pc = "check"
    /\ ranks' = IF ExistsCheckRaises(fs.exists) THEN Raise(r, "SameName") ELSE Goto(r, "makedirs")
    /\ UNCHANGED <<fs, lz>>
    /\ UNCHANGED trainVars

\* line 204
Makedirs(r) ==
    /\ ranks[r].pc = "makedirs"
    /\ IF MakedirsRaises(fs.exists)
       THEN ranks' = Raise(r, "FileExistsError") /\ fs' = fs
       ELSE ranks' = Goto(r, "device") /\ fs' = [fs EXCEPT !.exists = TRUE, !.creator = r]
    /\ UNCHANGED lz
    /\ UNCHANGED trainVars

\* line 207: device is a local of main (assigned at lines 209 and 212) and is
\* read before any assignment
SelectDevice(r) ==
    /\ ranks[r].pc = "device"
    /\ ranks' = Raise(r, "UnboundLocalError")
    /\ UNCHANGED <<fs, lz>>
    /\ UNCHANGED trainVars

\* lines 297-302: the handler prints a RuntimeError and goes on to exit(0);
\* any other exception leaves the process through the interpreter, status 1
TopLevel(r) ==
    /\ ranks[r].pc = "raised"
    /\ ranks' = IF Caught(ranks[r].exc)
                THEN [ranks EXCEPT ![r].pc = "exited", ![r].status = 0]
                ELSE [ranks EXCEPT ![r].pc = "crashed", ![r].status = 1]
    /\ UNCHANGED <<fs, lz>>
    /\ UNCHANGED trainVars

InitMain ==
    /\ \E w \in 1..MaxRanks :
          ranks = [r \in 1..w |-> [pc |-> "start", exc |-> "none", status |-> -1]]
    /\ \E pre \in BOOLEAN : fs = [exists |-> pre, pre |-> pre, creator |-> 0]
    /\ lz = NoLoss
    /\ cfg = [k |-> 1, interval |-> MainTrainInterval, n |-> 1, trainLosses |-> {1}]
    /\ pc = "main"
    /\ exc = "none"
    /\ phase = "full"
    /\ main_best = Rat(MainBestValLoss, 1)
    /\ best_val_loss = Rat(MainBestValLoss, 1)
    /\ loss_val = Rat(MainBestValLoss, 1)
    /\ loss_train = Rat(0, 1)
    /\ epoch = 0
    /\ results = [loss_train |-> <<>>, loss_val |-> <<>>]
    /\ files = NoFiles
    /\ netMode = "train"
    /\ grads = NoGrads
    /\ t = TrainLocals0
    /\ v = [i |-> 0, total_loss |-> 0, total_num |-> 0]
    /\ h = History0

NextMain ==
    \/ \E r \in DOMAIN ranks : InitForDistributed(r)
    \/ \E r \in DOMAIN ranks : Barrier(r)
    \/ \E r \in DOMAIN ranks : CheckSingularity(r)
    \/ \E r \in DOMAIN ranks : Makedirs(r)
    \/ \E r \in DOMAIN ranks : SelectDevice(r)
    \/ \E r \in DOMAIN ranks : TopLevel(r)

SpecMain == InitMain /\ [][NextMain]_vars

(* ===================== properties of main's start ===================== *)
PastCheck(r) ==
    \/ ranks[r].pc \in {"makedirs", "device"}
    \/ ranks[r].exc \in {"FileExistsError", "UnboundLocalError"}

\* C4: started on an experiment directory that exists, main fails at the
\* check of line 201 on every rank that reaches it: no rank goes on to create
\* the directory or to anything after it, so no batch is trained, no
\* optimizer step taken and nothing written into the directory.
C4_ExistingDirectoryStopsRun ==
    fs.pre =>
        /\ \A r \in DOMAIN ranks : ~PastCheck(r)
        /\ fs.creator = 0
        /\ files = NoFiles
        /\ h = History0
        /\ t = TrainLocals0

\* C4 witness: a rank has met the existing directory and has been stopped.
C4_Witness ==
    /\ fs.pre
    /\ \E r \in DOMAIN ranks : ranks[r].exc = "SameName" /\ ranks[r].pc = "exited"

\* C5: the handler handles the 'same name' error alone: a rank that reaches
\* exit(0) after a failure failed with that error, and every other failure
\* ends the process without exit(0).
C5_OnlySameNameHandled ==
    \A r \in DOMAIN ranks :
        /\ ranks[r].pc = "exited" => ranks[r].exc = "SameName"
        /\ (ranks[r].pc \in {"exited", "crashed"} /\ ranks[r].exc # "SameName")
              => ranks[r].status # 0

\* C6: with two or more ranks on one experiment path that did not exist, no
\* rank is stopped by the check of line 201 or by makedirs.
C6_NoRankStoppedByAnother ==
    (~fs.pre /\ Cardinality(DOMAIN ranks) >= 2) =>
        \A r \in DOMAIN ranks : ranks[r].exc \notin {"SameName", "FileExistsError"}

(* -------------------- the loss, lines 39-51 and 82-94 ----------------- *)
\* Embedding batches are sequences of integer vectors.  exp(x / T) is modelled
\* by 4^(x / T), shifted to stay an integer: ExpDiv(x, T) = 2^(2x/T + ExpShift)
\* for T in {1, 2}; the shift is a common factor of numerator and denominator
\* of every ratio.  A mean of logarithms is kept as the bag of the ratios it
\* averages.
\* The inputs: <<batch size, embedding dimension, temperature>>, chosen so
\* that every power of two stays below 2^31.
LossInputShapes == {<<1, 1, 1>>, <<2, 1, 1>>, <<2, 1, 2>>, <<1, 2, 2>>}
Coords == (-MaxCoord)..MaxCoord
ExpShift == 2 * MaxCoord * MaxCoord

RECURSIVE SumTo(_, _)
SumTo(f, n) == IF n = 0 THEN 0 ELSE f[n] + SumTo(f, n - 1)

RECURSIVE Gcd(_, _)
Gcd(a, b) == IF b = 0 THEN a ELSE Gcd(b, a % b)

\* torch.sum(a * b, dim=-1) of two vectors; a row of torch.mm(z, z.t())
Dot(a, b) == SumTo([d \in 1..Len(a) |-> a[d] * b[d]], Len(a))

ExpDiv(x, T) == 2 ^ (((2 * x) \div T) + ExpShift)

\* lines 39 / 82: torch.cat([z_1, z_2], dim=0)
Cat(z_1, z_2) == z_1 \o z_2

\* lines 42-44 / 85-87: row i of exp(z z^T / T), its diagonal entry masked out,
\* summed
SimRowSum(z, i, T) ==
    SumTo([j \in 1..Len(z) |-> IF j = i THEN 0 ELSE ExpDiv(Dot(z[i], z[j]), T)], Len(z))

\* faulty variant of PosSim: the positive pair of a row is taken within the first view
PosSimFirstView(z_1, z_2, T) ==
    LET p == [i \in 1..Len(z_1) |-> ExpDiv(Dot(z_1[i], z_1[i]), T)] IN p \o p

\* lines 47-48 / 90-91: exp(sum(z_1 * z_2) / T), once for each half
PosSim(z_1, z_2, T) ==
    LET p == [i \in 1..Len(z_1) |-> ExpDiv(Dot(z_1[i], z_2[i]), T)] IN p \o p

Ratio(p, d) == IF d = 0 THEN <<1, 0>> ELSE <<p \div Gcd(p, d), d \div Gcd(p, d)>>

\* lines 51 / 94: (-log(pos_sim / sim_matrix)).mean(), as the bag of the ratios
Loss(z_1, z_2, T) ==
    LET z == Cat(z_1, z_2)
        pos == PosSim(z_1, z_2, T)
        term == [i \in 1..Len(z) |-> Ratio(pos[i], SimRowSum(z, i, T))]
        terms == {term[i] : i \in 1..Len(z)}
    IN  [x \in terms |-> Cardinality({i \in 1..Len(z) : term[i] = x})]

Embeddings(B, D) == [1..B -> [1..D -> Coords]]

InitLoss ==
    /\ \E s \in LossInputShapes :
         \E z_1 \in Embeddings(s[1], s[2]) : \E z_2 \in Embeddings(s[1], s[2]) :
            lz = [z_1 |-> z_1, z_2 |-> z_2, T |-> s[3], fwd |-> <<>>, swp |-> <<>>,
                  calls |-> {}]
    /\ ranks = NoRanks
    /\ fs = FALSE
    /\ cfg = [k |-> 1, interval |-> MainTrainInterval, n |-> 1, trainLosses |-> {1}]
    /\ pc = "loss"
    /\ exc = "none"
    /\ phase = "full"
    /\ main_best = Rat(MainBestValLoss, 1)
    /\ best_val_loss = Rat(MainBestValLoss, 1)
    /\ loss_val = Rat(MainBestValLoss, 1)
    /\ loss_train = Rat(0, 1)
    /\ epoch = 0
    /\ results = [loss_train |-> <<>>, loss_val |-> <<>>]
    /\ files = NoFiles
    /\ netMode = "train"
    /\ grads = NoGrads
    /\ t = TrainLocals0
    /\ v = [i |-> 0, total_loss |-> 0, total_num |-> 0]
    /\ h = History0

\* the loss of the batch as given
LossForward ==
    /\ "fwd" \notin lz.calls
    /\ lz' = [lz EXCEPT !.fwd = Loss(lz.z_1, lz.z_2, lz.T), !.calls = @ \cup {"fwd"}]
    /\ UNCHANGED <<ranks, fs>>
    /\ UNCHANGED trainVars

\* the loss of the batch with the two views exchanged
LossSwapped ==
    /\ "swp" \notin lz.calls
    /\ lz' = [lz EXCEPT !.swp = Loss(lz.z_2, lz.z_1, lz.T), !.calls = @ \cup {"swp"}]
    /\ UNCHANGED <<ranks, fs>>
    /\ UNCHANGED trainVars

NextLoss == LossForward \/ LossSwapped

SpecLoss == InitLoss /\ [][NextLoss]_vars

\* C7: for the same embeddings and temperature the loss does not change when
\* the two views are exchanged.
C7_LossSymmetric ==
    lz.calls = {"fwd", "swp"} => lz.fwd = lz.swp

\* C7 witness: both losses are computed for two views that differ, over more
\* than one sample.
C7_Witness ==
    /\ lz.calls = {"fwd", "swp"}
    /\ lz.z_1 # lz.z_2
    /\ Len(lz.z_1) = 2
    /\ \E x \in DOMAIN lz.fwd : lz.fwd[x] = 1

====
